---- MODULE Spec2Model ----
(***************************************************************************)
(* Model of fovis::VisualOdometry (src/src/visual_odometry.cpp): the       *)
(* reference-frame state machine of processFrame, the adaptive FAST        *)
(* threshold controller and the pose accumulator.                          *)
(*                                                                         *)
(* Rigid transforms (Eigen::Isometry3d) are modelled by the permutations   *)
(* of 1..3 under composition: a finite group that, like SE(3), is not      *)
(* commutative, so that the order of every product and every inverse of    *)
(* the code is observable.                                                 *)
(*                                                                         *)
(* MotionEstimator, OdometryFrame::prepareFrame and the                    *)
(* InitialHomographyEstimator are collaborators whose code is outside the  *)
(* modelled files: what they return (validity, estimate, inlier count,     *)
(* number of detected keypoints, initial rotation) is an input of the      *)
(* action, drawn from small sets.                                          *)
(***************************************************************************)
EXTENDS Integers, Naturals, Sequences, FiniteSets, TLC

\* ------------------------------------------------------------------ bounds

\* processFrame is called at most MaxFrames times in a behaviour.
MaxFrames == 4

\* a frame has at most MaxPyramidLevels pyramid levels
MaxPyramidLevels == 7

\* increase_capacity is asked for 0 .. MaxCapacitySteps thirds of the initial
\* capacity
MaxCapacitySteps == 5

\* ------------------------------------------------------- program constants

FastThresholdMin == 5
FastThresholdMax == 70
DefaultFastThreshold == 20
RefFrameChangeThreshold == 150
TargetPixelsPerFeature == 250
\* fast-threshold-adaptive-gain, 0.005, as the fraction GainNum / GainDen
GainNum == 1
GainDen == 200
\* _keypoints_capacity of a new PyramidLevel
InitialCapacity == 1500
\* the keypoint count of a new level set to its capacity
InitialNumKeypoints_Capacity == InitialCapacity
\* _num_keypoints of a new PyramidLevel
InitialNumKeypoints == 0
\* _initial_rotation_pyramid_level
InitialRotationPyramidLevel == 4
\* "max-pyramid-level", the number of pyramid levels of a frame, by default
DefaultPyramidLevels == 3
\* the camera's image size (CameraIntrinsicsParameters)
Width == 640
Height == 480

\* ------------------------------------------------------------- transforms

Transforms == { <<1, 2, 3>>, <<1, 3, 2>>, <<2, 1, 3>>,
                <<2, 3, 1>>, <<3, 1, 2>>, <<3, 2, 1>> }

\* Isometry3d::setIdentity
Id == <<1, 2, 3>>

\* Isometry3d operator*: (a * b) applies b first, then a
Mul(a, b) == [i \in 1..3 |-> a[b[i]]]

\* Isometry3d::inverse
Inv(a) == CHOOSE b \in Transforms : Mul(a, b) = Id

\* ------------------------------------------------------------------ inputs

\* what MotionEstimator::getMotionEstimate can return: two transforms that
\* do not commute
Motions == { <<2, 1, 3>>, <<2, 3, 1>> }

\* what estimateInitialRotation can return
InitRotations == { Id, <<2, 3, 1>> }

\* what MotionEstimator::getNumInliers can return: just under the threshold,
\* exactly the threshold, just over it
InlierCounts == { RefFrameChangeThreshold - 1, RefFrameChangeThreshold,
                  RefFrameChangeThreshold + 1 }

\* the configured fast-threshold option: the default, one below the clamp
\* range and one above it
FastThresholdOptions == { 3, DefaultFastThreshold, 90 }

\* the three OdometryFrame objects allocated by the constructor
FrameObjects == { 1, 2, 3 }

\* ----------------------------------------------------------- pure helpers

\* clamp with the lower limit forgotten
Clamp_NoLower(val, minval, maxval) == IF val > maxval THEN maxval ELSE val

\* clamp(val, minval, maxval)
Clamp(val, minval, maxval) ==
  IF val > maxval THEN maxval
  ELSE IF val < minval THEN minval
  ELSE val

\* the C++ conversion (int)(n / d) of a quotient with d > 0: the fraction is
\* dropped, towards zero
TruncDiv(n, d) == IF n >= 0 THEN n \div d ELSE -((-n) \div d)

\* int target_num_features = width * height / _target_pixels_per_feature
TargetNumFeatures == (Width * Height) \div TargetPixelsPerFeature

\* the adjustment rounded down (floor) instead of towards zero
ThreshAdjustment_Floor(err) == (err * GainNum) \div GainDen

\* int thresh_adjustment = (int)((err) * _fast_threshold_adaptive_gain)
ThreshAdjustment(err) == TruncDiv(err * GainNum, GainDen)

\* the controller run whatever use-adaptive-threshold says
NextFastThreshold_Always(adaptive, thresh, detected) ==
  Clamp(thresh + ThreshAdjustment(detected - TargetNumFeatures),
        FastThresholdMin, FastThresholdMax)

\* the "if (_use_adaptive_threshold) { ... }" block: the value of
\* _fast_threshold after it
NextFastThreshold(adaptive, thresh, detected) ==
  IF adaptive
  THEN Clamp(thresh + ThreshAdjustment(detected - TargetNumFeatures),
             FastThresholdMin, FastThresholdMax)
  ELSE thresh

\* what OdometryFrame::getNumDetectedKeypoints can return: no keypoint at
\* all (a large negative error), one and three quarters of a threshold step
\* under the target, and three quarters of a step over it
DetectedCounts == { 0, TargetNumFeatures - 350, TargetNumFeatures + 150 }

\* ------------------------------------------------------------------- state

VARIABLES
  ref_frame, prev_frame, cur_frame,  \* the three handles: a frame object each
  frame_image,             \* frame object -> number of the image it holds (0: none)
  change_reference_frames, \* _change_reference_frames
  frame_count,             \* _frame_count
  fast_threshold,          \* _fast_threshold
  fast_threshold_option,   \* the configured "fast-threshold"
  use_adaptive_threshold,  \* _use_adaptive_threshold
  use_homography_initialization,
  pose,                    \* _p->pose
  motion_estimate,         \* _p->motion_estimate
  ref_to_prev_frame,       \* _p->ref_to_prev_frame
  initial_motion_estimate, \* _p->initial_motion_estimate
  est_valid,               \* _estimator->isMotionEstimateValid()
  est_inliers,             \* _estimator->getNumInliers()
  est_motion,              \* what the last call read from getMotionEstimate() (Id: it read none)
  \* what the last processFrame call saw and did
  changed_reference_frames, \* its local changed_reference_frames
  est_runs,                \* how many times it ran estimateMotion
  est_against,             \* the frame objects it ran estimateMotion against
  pose_entry,              \* _p->pose when it was entered
  ref_to_prev_used,        \* _p->ref_to_prev_frame when it formed the initial estimate
  detect_threshold,        \* the threshold it passed to prepareFrame
  num_detected,            \* getNumDetectedKeypoints() of the frame it prepared
  reported_product,        \* the product of the motion estimates reported so far
  est_first_valid,         \* whether its first estimateMotion run was valid
  num_pyramid_levels,      \* OdometryFrame::getNumLevels() of the three frames
  \* what the last estimateInitialRotation call did (0: there was none)
  hom_level,               \* pyrLevel: the level of the two images
  hom_downsample,          \* the downsample exponent passed with both images
  hom_scale_factor,        \* scale_factor, which scales H to the full size image
  hom_template,            \* the frame object of the template image
  hom_test                 \* the frame object of the test image

\* the state of the engine
driver_vars == << ref_frame, prev_frame, cur_frame, frame_image,
           change_reference_frames, frame_count, fast_threshold,
           fast_threshold_option, use_adaptive_threshold,
           use_homography_initialization, pose, motion_estimate,
           ref_to_prev_frame, initial_motion_estimate, est_valid, est_inliers,
           est_motion, changed_reference_frames, est_runs, est_against,
           pose_entry, ref_to_prev_used, detect_threshold, num_detected,
           reported_product, est_first_valid, num_pyramid_levels, hom_level,
           hom_downsample, hom_scale_factor, hom_template, hom_test >>

\* one PyramidLevel (src/src/pyramid_level.cpp)
VARIABLES
  lvl_state,          \* "unbuilt", "live", or "crashed" (the process ended)
  lvl_raw_gray,       \* _raw_gray: "none" (not set yet), "ok" or "null"
  lvl_descriptors,    \* _descriptors: "none", "ok", "null" or "invalid" (freed)
  lvl_capacity,       \* _keypoints_capacity
  lvl_num_keypoints,  \* _num_keypoints
  lvl_stride,         \* getDescriptorStride()
  lvl_desc_buf_size,  \* the size asked for the descriptor buffer
  lvl_valid_bytes,    \* the bytes of the descriptor buffer that hold descriptors
  lvl_signalled,      \* an allocation failure was reported on stderr
  lvl_null_access,    \* a step read or wrote through a buffer that is not allocated
  lvl_populated       \* a populateDescriptor* call was made

level_vars == << lvl_state, lvl_raw_gray, lvl_descriptors, lvl_capacity,
                 lvl_num_keypoints, lvl_stride, lvl_desc_buf_size,
                 lvl_valid_bytes, lvl_signalled, lvl_null_access,
                 lvl_populated >>

vars == << driver_vars, level_vars >>

\* VisualOdometry::VisualOdometry, the options drawn from the given sets. The
\* estimator's answers are not read before its first run.
Constructed(thresholds, adaptives, homographies, levels) ==
  /\ ref_frame = 1
  /\ prev_frame = 2
  /\ cur_frame = 3
  /\ frame_image = [f \in FrameObjects |-> 0]
  /\ change_reference_frames = FALSE
  /\ frame_count = 0
  /\ fast_threshold_option \in thresholds
  /\ fast_threshold = fast_threshold_option
  /\ use_adaptive_threshold \in adaptives
  /\ use_homography_initialization \in homographies
  /\ num_pyramid_levels \in levels
  /\ pose = Id
  /\ motion_estimate = Id
  /\ ref_to_prev_frame = Id
  /\ initial_motion_estimate = Id
  /\ est_valid = FALSE
  /\ est_inliers = 0
  /\ est_motion = Id
  /\ changed_reference_frames = FALSE
  /\ est_runs = 0
  /\ est_against = << >>
  /\ pose_entry = Id
  /\ ref_to_prev_used = Id
  /\ detect_threshold = 0
  /\ num_detected = 0
  /\ reported_product = Id
  /\ est_first_valid = FALSE
  /\ hom_level = 0
  /\ hom_downsample = 0
  /\ hom_scale_factor = 0
  /\ hom_template = 0
  /\ hom_test = 0

\* no PyramidLevel is built yet
LevelUnbuilt ==
  /\ lvl_state = "unbuilt"
  /\ lvl_raw_gray = "none"
  /\ lvl_descriptors = "none"
  /\ lvl_capacity = 0
  /\ lvl_num_keypoints = 0
  /\ lvl_stride = 0
  /\ lvl_desc_buf_size = 0
  /\ lvl_valid_bytes = 0
  /\ lvl_signalled = FALSE
  /\ lvl_null_access = FALSE
  /\ lvl_populated = FALSE

\* an engine with options of every kind and the default number of levels
Init ==
  /\ Constructed(FastThresholdOptions, BOOLEAN, BOOLEAN, { DefaultPyramidLevels })
  /\ LevelUnbuilt

\* an engine with homography initialization, a fixed threshold and any
\* number of pyramid levels
InitPyramid ==
  /\ Constructed({ DefaultFastThreshold }, { FALSE }, { TRUE }, 1 .. MaxPyramidLevels)
  /\ LevelUnbuilt

\* an engine with the default options, left alone
InitLevel ==
  /\ Constructed({ DefaultFastThreshold }, { TRUE }, { TRUE }, { DefaultPyramidLevels })
  /\ LevelUnbuilt

\* ---------------------------------------------------- steps of processFrame

\* the handles assigned instead of swapped
SwapFrames_Assign(change, ref, prev, cur) ==
  IF change THEN << cur, prev, cur >> ELSE << ref, cur, cur >>

\* the handles <<ref, prev, cur>> after the swap that opens processFrame
SwapFrames(change, ref, prev, cur) ==
  IF change THEN << cur, prev, ref >>   \* std::swap(_ref_frame, _cur_frame)
  ELSE << ref, cur, prev >>             \* std::swap(_prev_frame, _cur_frame)

\* ref_to_prev_frame not reset when the reference frame changes
RefToPrevAfterSwap_Keep(change, r2p) == r2p

\* _p->ref_to_prev_frame after that swap
RefToPrevAfterSwap(change, r2p) == IF change THEN Id ELSE r2p

\* the first-frame test off by one
IsFirstFrame_OffByOne(count) == count < 1

\* "if(_frame_count < 2)": no temporal matching yet
IsFirstFrame(count) == count < 2

\* MIN(a, b)
Min(a, b) == IF a < b THEN a ELSE b

\* 1 << n
ShiftLeftOne(n) == 2 ^ n

\* the level taken without MIN
InitialRotationLevel_NoMin(levels) == InitialRotationPyramidLevel

\* MIN taken of the number of levels, not of the last level
InitialRotationLevel_OffByOne(levels) == Min(levels, InitialRotationPyramidLevel)

\* int pyrLevel = MIN(num_pyr_levels-1, _initial_rotation_pyramid_level)
InitialRotationLevel(levels) == Min(levels - 1, InitialRotationPyramidLevel)

\* the downsample exponent passed to setTemplateImage and setTestImage
InitialRotationDownsample(level) == InitialRotationPyramidLevel - level

\* double scale_factor = 1 << _initial_rotation_pyramid_level
InitialRotationScaleFactor == ShiftLeftOne(InitialRotationPyramidLevel)

\* the previous frame taken as the template whatever the reference frame is
TemplateFrame_Previous(changed, ref, prev) == prev

\* the first argument of estimateInitialRotation: the frame of the template
TemplateFrame(changed, ref, prev) == IF changed THEN ref ELSE prev

\* the rotation the initial estimate is rotated by
InitRotationChoices(homography) == IF homography THEN InitRotations ELSE { Id }

\* _p->initial_motion_estimate = _p->ref_to_prev_frame.inverse(), rotated
InitialMotionEstimate(r2p, rot) == Mul(Inv(r2p), rot)

\* the initial estimate of the run against the previous frame
FallbackInitialEstimate(rot) == Mul(Id, rot)

\* _p->motion_estimate = _p->ref_to_prev_frame * to_reference
MotionFromReference(r2p, to_reference) == Mul(r2p, to_reference)

\* the estimate against the previous frame composed as if against the reference
MotionFromPrevious_Composed(r2p, to_previous) == Mul(r2p, to_previous)

\* _p->motion_estimate = _estimator->getMotionEstimate(), against previous
MotionFromPrevious(r2p, to_previous) == to_previous

\* the motion estimate multiplied on the left
AccumulatePose_Left(p, m) == Mul(m, p)

\* _p->pose = _p->pose * _p->motion_estimate
AccumulatePose(p, m) == Mul(p, m)

\* ref_to_prev_frame set to the estimate itself
RefToPrevFromEstimate_NoInverse(to_reference) == to_reference

\* _p->ref_to_prev_frame = to_reference.inverse()
RefToPrevFromEstimate(to_reference) == Inv(to_reference)

\* the flag left as it was on entry
ClearedFlag_Kept(flag) == flag

\* _change_reference_frames = false, before the frame is prepared
ClearedFlag(flag) == FALSE

\* the run against the previous frame tried whatever the reference frame is
TriesPreviousFrame_Always(changed) == TRUE

\* "else if(!changed_reference_frames)": whether a failed run against the
\* reference frame is followed by a run against the previous frame
TriesPreviousFrame(changed) == ~changed

\* the validity test left out
SwitchReference_NoValidity(flag, valid, inliers) ==
  IF inliers < RefFrameChangeThreshold THEN TRUE ELSE flag

\* the inlier test with <= for <
SwitchReference_Le(flag, valid, inliers) ==
  IF ~valid \/ inliers <= RefFrameChangeThreshold THEN TRUE ELSE flag

\* the inlier test left out
SwitchReference_NoInliers(flag, valid, inliers) ==
  IF ~valid THEN TRUE ELSE flag

\* "switch reference frames?": _change_reference_frames at the return, from
\* the estimator's last answers and the flag so far
SwitchReference(flag, valid, inliers) ==
  IF ~valid \/ inliers < RefFrameChangeThreshold THEN TRUE ELSE flag

\* ------------------------------------------------------------ processFrame

\* VisualOdometry::processFrame(gray, depth_source), as one step. The inputs
\* are what the collaborators answer during the call: the number of keypoints
\* prepareFrame detects, the initial rotation, and the validity, estimate and
\* inlier count of each estimateMotion run.
ProcessFrame ==
  /\ frame_count < MaxFrames
  /\ UNCHANGED level_vars
  /\ \E detected \in DetectedCounts :
       LET changed == change_reference_frames
           handles == SwapFrames(changed, ref_frame, prev_frame, cur_frame)
           ref     == handles[1]
           prev    == handles[2]
           cur     == handles[3]
           r2p     == RefToPrevAfterSwap(changed, ref_to_prev_frame)
           count   == frame_count + 1
       IN
       \* the swap, prepareFrame, the threshold controller, the counter
       /\ ref_frame' = ref
       /\ prev_frame' = prev
       /\ cur_frame' = cur
       /\ changed_reference_frames' = changed
       /\ pose_entry' = pose
       /\ frame_image' = [frame_image EXCEPT ![cur] = count]
       /\ detect_threshold' = fast_threshold
       /\ num_detected' = detected
       /\ fast_threshold' =
            NextFastThreshold(use_adaptive_threshold, fast_threshold, detected)
       /\ frame_count' = count
       /\ UNCHANGED << fast_threshold_option, use_adaptive_threshold,
                       use_homography_initialization, num_pyramid_levels >>
       /\ \/ \* the first frame: nothing to match against
             /\ IsFirstFrame(count)
             /\ motion_estimate' = Id
             /\ change_reference_frames' = TRUE
             /\ ref_to_prev_frame' = r2p
             /\ est_runs' = 0
             /\ est_against' = << >>
             /\ UNCHANGED << pose, initial_motion_estimate, est_valid,
                             est_inliers, est_motion, ref_to_prev_used,
                             est_first_valid, hom_level, hom_downsample,
                             hom_scale_factor, hom_template, hom_test >>
          \/ /\ ~IsFirstFrame(count)
             /\ \E rot \in InitRotationChoices(use_homography_initialization),
                   inliers \in InlierCounts, to_reference \in Motions :
                  \* estimateInitialRotation
                  /\ IF use_homography_initialization
                     THEN /\ hom_level' = InitialRotationLevel(num_pyramid_levels)
                          /\ hom_downsample' =
                               InitialRotationDownsample(InitialRotationLevel(num_pyramid_levels))
                          /\ hom_scale_factor' = InitialRotationScaleFactor
                          /\ hom_template' = TemplateFrame(changed, ref, prev)
                          /\ hom_test' = cur
                     ELSE UNCHANGED << hom_level, hom_downsample, hom_scale_factor,
                                       hom_template, hom_test >>
                  /\ ref_to_prev_used' = r2p
                  /\ \/ \* the estimate against the reference frame is valid
                        /\ est_valid' = TRUE
                        /\ est_first_valid' = TRUE
                        /\ est_inliers' = inliers
                        /\ est_motion' = to_reference
                        /\ est_runs' = 1
                        /\ est_against' = << ref >>
                        /\ initial_motion_estimate' = InitialMotionEstimate(r2p, rot)
                        /\ motion_estimate' = MotionFromReference(r2p, to_reference)
                        /\ ref_to_prev_frame' = RefToPrevFromEstimate(to_reference)
                        /\ pose' = AccumulatePose(pose, MotionFromReference(r2p, to_reference))
                        /\ change_reference_frames' = SwitchReference(ClearedFlag(changed), TRUE, inliers)
                     \/ \* it is invalid, and the previous frame is the reference frame
                        /\ ~TriesPreviousFrame(changed)
                        /\ est_valid' = FALSE
                        /\ est_first_valid' = FALSE
                        /\ est_inliers' = inliers
                        /\ est_motion' = Id
                        /\ est_runs' = 1
                        /\ est_against' = << ref >>
                        /\ initial_motion_estimate' = InitialMotionEstimate(r2p, rot)
                        /\ motion_estimate' = Id
                        /\ ref_to_prev_frame' = r2p
                        /\ pose' = pose
                        /\ change_reference_frames' = SwitchReference(ClearedFlag(changed), FALSE, inliers)
                     \/ \* it is invalid: a second run, against the previous frame
                        /\ TriesPreviousFrame(changed)
                        /\ est_first_valid' = FALSE
                        /\ est_runs' = 2
                        /\ est_against' = << ref, prev >>
                        /\ initial_motion_estimate' = FallbackInitialEstimate(rot)
                        /\ ref_to_prev_frame' = r2p
                        /\ est_inliers' = inliers
                        /\ \/ \* valid against the previous frame
                              /\ est_valid' = TRUE
                              /\ est_motion' = to_reference
                              /\ motion_estimate' = MotionFromPrevious(r2p, to_reference)
                              /\ pose' = AccumulatePose(pose, MotionFromPrevious(r2p, to_reference))
                              /\ change_reference_frames' = SwitchReference(TRUE, TRUE, inliers)
                           \/ \* invalid again
                              /\ est_valid' = FALSE
                              /\ est_motion' = Id
                              /\ motion_estimate' = Id
                              /\ pose' = pose
                              /\ change_reference_frames' = SwitchReference(ClearedFlag(changed), FALSE, inliers)
       \* the motion estimate this call reports joins the product
       /\ reported_product' = Mul(reported_product, motion_estimate')

Next == ProcessFrame

Spec == Init /\ [][Next]_vars

\* the same engine over frames of 1 .. MaxPyramidLevels levels
SpecPyramid == InitPyramid /\ [][Next]_vars

\* ------------------------------------------------------------ PyramidLevel

\* what getDescriptorStride can return: multiples of the alignment
DescriptorStrides == { 80, 96 }

\* the capacities increase_capacity is asked for: thirds of the initial one,
\* under it, equal to it and over it
CapacityRequests ==
  { (InitialCapacity \div 3) * k : k \in 0 .. MaxCapacitySteps }

\* _descriptors after a posix_memalign or _aligned_malloc call of the
\* constructor, where it was NULL before the call
ConstructedDescriptors(ok) == IF ok THEN { "ok" } ELSE { "null" }

\* _descriptors after the allocation of increase_capacity: on failure the
\* WIN32 build stores NULL and the other build leaves the freed pointer
ReallocatedDescriptors(ok) == IF ok THEN { "ok" } ELSE { "null", "invalid" }

\* _keypoints_capacity = new_capacity
CapacityAfterIncrease(capacity, new_capacity) == new_capacity

\* PyramidLevel::PyramidLevel. gray_ok and desc_ok say whether the two
\* aligned allocations succeed. When the image allocation fails, _raw_gray
\* is set to NULL and memset writes through it: the process ends there
\* (continues = FALSE) or goes on.
ConstructLevel ==
  /\ lvl_state = "unbuilt"
  /\ \E gray_ok \in BOOLEAN, desc_ok \in BOOLEAN, continues \in BOOLEAN,
        stride \in DescriptorStrides :
       /\ lvl_raw_gray' = IF gray_ok THEN "ok" ELSE "null"
       /\ lvl_null_access' = ~gray_ok
       /\ \/ \* memset(_raw_gray, ...) ends the process
             /\ ~gray_ok
             /\ ~continues
             /\ lvl_state' = "crashed"
             /\ lvl_signalled' = TRUE
             /\ UNCHANGED << lvl_descriptors, lvl_capacity, lvl_num_keypoints,
                             lvl_stride, lvl_desc_buf_size, lvl_valid_bytes >>
          \/ \* the constructor runs to its end
             /\ gray_ok \/ continues
             /\ lvl_state' = "live"
             /\ lvl_num_keypoints' = InitialNumKeypoints
             /\ lvl_capacity' = InitialCapacity
             /\ lvl_stride' = stride
             /\ lvl_desc_buf_size' = InitialCapacity * stride
             /\ lvl_descriptors' \in ConstructedDescriptors(desc_ok)
             /\ lvl_valid_bytes' = 0
             /\ lvl_signalled' = (~gray_ok \/ ~desc_ok)
  /\ UNCHANGED << lvl_populated, driver_vars >>

\* PyramidLevel::increase_capacity(new_capacity). The keypoint array and the
\* descriptor buffer are released and allocated again: no byte of the new
\* buffer holds a descriptor. _num_keypoints is not written.
IncreaseCapacity ==
  /\ lvl_state = "live"
  /\ \E new_capacity \in CapacityRequests, desc_ok \in BOOLEAN :
       /\ lvl_capacity' = CapacityAfterIncrease(lvl_capacity, new_capacity)
       /\ lvl_desc_buf_size' =
            CapacityAfterIncrease(lvl_capacity, new_capacity) * lvl_stride
       /\ lvl_descriptors' \in ReallocatedDescriptors(desc_ok)
       /\ lvl_valid_bytes' = 0
       /\ lvl_signalled' = (lvl_signalled \/ ~desc_ok)
  /\ UNCHANGED << lvl_state, lvl_raw_gray, lvl_num_keypoints, lvl_stride,
                  lvl_null_access, lvl_populated, driver_vars >>

\* PyramidLevel::populateDescriptorInterp, populateDescriptorAligned,
\* populateDescriptorsInterp, populateDescriptorsAligned: the extractor reads
\* the image through _raw_gray, whatever it is.
PopulateDescriptors ==
  /\ lvl_state = "live"
  /\ lvl_populated' = TRUE
  /\ lvl_null_access' = (lvl_null_access \/ lvl_raw_gray = "null")
  /\ UNCHANGED << lvl_state, lvl_raw_gray, lvl_descriptors, lvl_capacity,
                  lvl_num_keypoints, lvl_stride, lvl_desc_buf_size,
                  lvl_valid_bytes, lvl_signalled, driver_vars >>

NextLevel == ConstructLevel \/ IncreaseCapacity \/ PopulateDescriptors

SpecLevel == InitLevel /\ [][NextLevel]_vars

\* ================================================================== claims

\* The last processFrame call was not the first one of the engine.
AfterFirstFrame == frame_count >= 2

\* The step is a processFrame call.
IsCall == frame_count' # frame_count

\* ---- C1
\* C1 (BOOTSTRAP): after the first processFrame call the frame is prepared
\* (the current frame object holds image 1), the estimator was not run, the
\* reported motion estimate and the pose are identity, and the
\* change-reference flag is true.
C1_Bootstrap ==
  frame_count = 1 =>
    /\ frame_image[cur_frame] = 1
    /\ est_runs = 0
    /\ est_against = << >>
    /\ motion_estimate = Id
    /\ pose = Id
    /\ change_reference_frames

C1_Witness == frame_count = 1 /\ detect_threshold = fast_threshold_option

\* ---- C2
\* the last call was after the first, its estimate against the reference
\* frame was valid and its inlier count was at least the threshold
C2_Case ==
  /\ AfterFirstFrame
  /\ est_runs = 1
  /\ est_valid
  /\ est_inliers >= RefFrameChangeThreshold

\* C2 (NORMAL): after such a call the pose is the pose on entry times the
\* reported motion estimate and the change-reference flag is false; and the
\* next call leaves the reference handle alone and makes the frame just
\* processed the previous frame.
C2_Normal ==
  /\ [](C2_Case => /\ pose = Mul(pose_entry, motion_estimate)
                   /\ ~change_reference_frames)
  /\ [][(C2_Case /\ IsCall) =>
          /\ ref_frame' = ref_frame
          /\ prev_frame' = cur_frame
          /\ frame_image'[prev_frame'] = frame_count]_vars

\* a NORMAL call with exactly the threshold's inliers, right after another
\* NORMAL call (the flag was false on entry), moving the pose
C2_Witness ==
  /\ C2_Case
  /\ est_inliers = RefFrameChangeThreshold
  /\ frame_count >= 3
  /\ ~changed_reference_frames
  /\ prev_frame # ref_frame
  /\ frame_image[prev_frame] = frame_count - 1
  /\ pose # pose_entry

\* ---- C3
\* the last call ran the estimator twice (the run against the reference frame
\* was invalid) and the run against the previous frame was valid
C3_Case ==
  /\ AfterFirstFrame
  /\ est_runs = 2
  /\ est_valid

\* C3 (FALLBACK): after such a call the pose is the pose on entry times the
\* estimate against the previous frame, that estimate is the reported motion
\* estimate, and the change-reference flag is true; the next call makes the
\* frame just processed the reference frame.
C3_Fallback ==
  /\ [](C3_Case => /\ pose = Mul(pose_entry, est_motion)
                   /\ motion_estimate = est_motion
                   /\ change_reference_frames)
  /\ [][(C3_Case /\ IsCall) =>
          /\ ref_frame' = cur_frame
          /\ frame_image'[ref_frame'] = frame_count]_vars

\* a fallback whose inlier count alone would not switch the reference frame,
\* with a ref_to_prev that is not identity
C3_Witness ==
  /\ C3_Case
  /\ est_inliers >= RefFrameChangeThreshold
  /\ ref_to_prev_used # Id
  /\ est_against = << ref_frame, prev_frame >>

\* ---- C4
\* the last call was after the first, and its last estimator run was invalid
\* or had fewer inliers than the threshold
C4_Case ==
  /\ AfterFirstFrame
  /\ (~est_valid \/ est_inliers < RefFrameChangeThreshold)

\* C4 as stated (REANCHOR): after such a call the pose is the pose on entry
\* and the change-reference flag is true.
C4_Original ==
  C4_Case => (pose = pose_entry /\ change_reference_frames)

\* C4 as amended: after such a call the change-reference flag is true; the
\* pose is the pose on entry when the estimator failed, and the pose on entry
\* times the reported motion estimate when a valid estimate had fewer
\* inliers than the threshold.
C4_Reanchor ==
  C4_Case =>
    /\ change_reference_frames
    /\ ~est_valid => (pose = pose_entry /\ motion_estimate = Id)
    /\ est_valid => pose = Mul(pose_entry, motion_estimate)

\* a valid estimate with too few inliers that moved the pose
C4_Witness ==
  /\ C4_Case
  /\ est_valid
  /\ est_runs = 1
  /\ pose # pose_entry

\* ---- C5
\* the last call ended with the estimator's inlier count below the threshold
C5_Case ==
  /\ frame_count >= 1
  /\ est_inliers < RefFrameChangeThreshold

\* C5 (reference-frame switch): after such a call the change-reference flag
\* is true; in the next call the frame just processed is the reference frame
\* and ref_to_prev is identity when the initial motion estimate is formed.
C5_ReferenceSwitch ==
  /\ [](C5_Case => change_reference_frames)
  /\ [][(C5_Case /\ IsCall) =>
          /\ changed_reference_frames'
          /\ ref_frame' = cur_frame
          /\ frame_image'[ref_frame'] = frame_count
          /\ ref_to_prev_used' = Id]_vars

\* a valid estimate with too few inliers, which left ref_to_prev different
\* from identity
C5_Witness ==
  /\ C5_Case
  /\ AfterFirstFrame
  /\ est_valid
  /\ ref_to_prev_frame # Id

\* ---- C6
\* C6 (pose composition): the pose is the ordered product of the motion
\* estimates reported after each call, and the reported estimate is identity
\* after the first call and after every call without a valid estimate.
C6_PoseComposition ==
  /\ pose = reported_product
  /\ (frame_count = 1 \/ (AfterFirstFrame /\ ~est_valid)) => motion_estimate = Id

\* the last call multiplied two transforms that do not commute
C6_Witness ==
  /\ frame_count >= 3
  /\ est_valid
  /\ Mul(pose_entry, motion_estimate) # Mul(motion_estimate, pose_entry)

\* ---- C7
\* adj is n / d with the fraction dropped (rounded towards zero), d > 0
C7_IsTruncated(adj, n, d) ==
  IF n >= 0 THEN adj * d <= n /\ n < (adj + 1) * d
  ELSE (adj - 1) * d < n /\ n <= adj * d

\* adj is an integer nearest to n / d, d > 0 (either one at a tie)
C7_IsNearest(adj, n, d) ==
  /\ 2 * (n - adj * d) <= d
  /\ 2 * (adj * d - n) <= d

\* the integers an adjustment for the error err can be
C7_Adjustments(err) ==
  LET a == IF err >= 0 THEN err ELSE -err
  IN  (-((a * GainNum) \div GainDen) - 1) .. (((a * GainNum) \div GainDen) + 1)

\* the error of the last call: detected - target
C7_Err == num_detected - (Width * Height) \div TargetPixelsPerFeature

\* the threshold v brought into [5, 70]
C7_Clamped(v) ==
  IF v > FastThresholdMax THEN FastThresholdMax
  ELSE IF v < FastThresholdMin THEN FastThresholdMin ELSE v

\* C7 as stated: with use-adaptive-threshold enabled, a call changes the
\* threshold to clamp(threshold + round(err * gain), 5, 70), round being the
\* nearest integer.
C7_Original ==
  (use_adaptive_threshold /\ frame_count >= 1) =>
    \E adj \in C7_Adjustments(C7_Err) :
      /\ C7_IsNearest(adj, C7_Err * GainNum, GainDen)
      /\ fast_threshold = C7_Clamped(detect_threshold + adj)

\* C7 as amended: the adjustment is err * gain with its fraction dropped
\* (rounded towards zero), for positive and negative err.
C7_AdaptiveUpdate ==
  (use_adaptive_threshold /\ frame_count >= 1) =>
    \E adj \in C7_Adjustments(C7_Err) :
      /\ C7_IsTruncated(adj, C7_Err * GainNum, GainDen)
      /\ fast_threshold = C7_Clamped(detect_threshold + adj)

\* a negative error whose product with the gain is not an integer, inside
\* the clamp range
C7_Witness ==
  /\ use_adaptive_threshold
  /\ frame_count >= 1
  /\ C7_Err < 0
  /\ (C7_Err * GainNum) % GainDen # 0
  /\ fast_threshold # detect_threshold
  /\ fast_threshold > FastThresholdMin

\* ---- C8
\* C8 (threshold range): with use-adaptive-threshold enabled, the threshold
\* is in [5, 70] after every call, and every frame after the first is
\* detected with a threshold in [5, 70].
C8_ThresholdRange ==
  use_adaptive_threshold =>
    /\ frame_count >= 1 =>
         (FastThresholdMin <= fast_threshold /\ fast_threshold <= FastThresholdMax)
    /\ frame_count >= 2 =>
         (FastThresholdMin <= detect_threshold /\ detect_threshold <= FastThresholdMax)

\* a configured threshold under the range, brought up to its lower limit
C8_Witness ==
  /\ use_adaptive_threshold
  /\ frame_count >= 2
  /\ fast_threshold_option < FastThresholdMin
  /\ detect_threshold = FastThresholdMin

\* ---- C9
\* C9: with use-adaptive-threshold disabled the threshold stays the
\* configured one, and every frame is detected with it.
C9_FixedThreshold ==
  ~use_adaptive_threshold =>
    /\ fast_threshold = fast_threshold_option
    /\ frame_count >= 1 => detect_threshold = fast_threshold_option

\* several calls, the last of which detected nothing at all
C9_Witness ==
  /\ ~use_adaptive_threshold
  /\ frame_count >= 2
  /\ num_detected = 0
  /\ num_detected # TargetNumFeatures

\* ---- C10
\* C10 (frame ownership by swap): the three handles are a permutation of the
\* three frame objects of the constructor.
C10_FrameOwnership ==
  /\ { ref_frame, prev_frame, cur_frame } = FrameObjects
  /\ ref_frame # prev_frame
  /\ prev_frame # cur_frame
  /\ ref_frame # cur_frame

\* every handle moved: both swaps have happened
C10_Witness ==
  /\ ref_frame # 1
  /\ prev_frame # 2
  /\ cur_frame # 3

\* ---- C11
\* the last call was after the first and obtained no valid estimate
C11_Case ==
  /\ AfterFirstFrame
  /\ ~est_valid

\* C11 (estimation failure never corrupts the pose): after such a call the
\* pose is the pose on entry, the reported motion estimate is identity and
\* the change-reference flag is true.
C11_FailureKeepsPose ==
  C11_Case =>
    /\ ~est_first_valid
    /\ pose = pose_entry
    /\ motion_estimate = Id
    /\ change_reference_frames

\* both runs failed, with a pose that had moved and an inlier count that
\* alone would keep the reference frame
C11_Witness ==
  /\ C11_Case
  /\ est_runs = 2
  /\ pose_entry # Id
  /\ est_inliers >= RefFrameChangeThreshold

\* ---- C12
\* estimateInitialRotation has run
C12_Ran == hom_test # 0

\* C12 as stated: the initial homography is estimated on level N - 2 of the
\* two frames, N their number of levels.
C12_Original ==
  C12_Ran => hom_level = num_pyramid_levels - 2

\* C12 as amended: it is estimated on the coarsest level N - 1 when N is at
\* most 5, and on level 4 when N is larger.
C12_HomographyLevel ==
  C12_Ran =>
    /\ num_pyramid_levels <= 5 => hom_level = num_pyramid_levels - 1
    /\ num_pyramid_levels > 5 => hom_level = 4

\* frames with more than six levels: level 4 is neither the coarsest level
\* nor the one before it
C12_Witness ==
  /\ C12_Ran
  /\ num_pyramid_levels > 6
  /\ hom_level < num_pyramid_levels - 2

\* ---- C13
\* C13 (monotonic capacity): no step of a built level lowers its keypoint
\* capacity.
C13_MonotonicCapacity ==
  [][(lvl_state = "live" /\ lvl_state' = "live") =>
       lvl_capacity' >= lvl_capacity]_vars

\* ---- C14
\* C14 (PyramidLevel invariant): in a built level the keypoint count is at
\* most the capacity, and the descriptor buffer holds exactly
\* num_keypoints * descriptor_stride bytes of descriptors.
C14_LevelInvariant ==
  lvl_state = "live" =>
    /\ lvl_num_keypoints <= lvl_capacity
    /\ lvl_valid_bytes = lvl_num_keypoints * lvl_stride

\* increase_capacity has brought the capacity to zero
C14_Witness ==
  /\ lvl_state = "live"
  /\ lvl_capacity = 0
  /\ lvl_desc_buf_size = 0
  /\ lvl_descriptors = "ok"

\* ---- C15
\* an aligned buffer of the level could not be obtained
C15_AllocationFailed ==
  lvl_raw_gray = "null" \/ lvl_descriptors \in { "null", "invalid" }

\* C15 (allocation failure is fatal and contained): no step reads or writes
\* through a buffer that is not allocated, and a level whose allocation
\* failed has signalled it and is not in use.
C15_FailureContained ==
  /\ ~lvl_null_access
  /\ C15_AllocationFailed => (lvl_signalled /\ lvl_state # "live")

\* ---- C16
\* C16: after a call the change-reference flag is true exactly when the call
\* was the first one, or used the estimate against the previous frame, or
\* its last estimator run was invalid or had fewer inliers than the
\* threshold.
C16_FlagExactly ==
  frame_count >= 1 =>
    (change_reference_frames <=>
       \/ frame_count = 1
       \/ (est_runs = 2 /\ est_valid)
       \/ ~est_valid
       \/ est_inliers < RefFrameChangeThreshold)

\* the flag was true on entry and is false on return
C16_Witness ==
  /\ AfterFirstFrame
  /\ changed_reference_frames
  /\ ~change_reference_frames

\* ---- C17
\* C17 (estimator call protocol): the first call runs the estimator zero
\* times; a later call runs it against the reference frame, and a second
\* time, against the previous frame, exactly when the first run was invalid
\* and the reference frame was not changed at the start of the call.
C17_CallProtocol ==
  /\ frame_count <= 1 => (est_runs = 0 /\ est_against = << >>)
  /\ AfterFirstFrame =>
       /\ est_runs \in { 1, 2 }
       /\ Len(est_against) = est_runs
       /\ est_against[1] = ref_frame
       /\ est_runs = 2 <=> (~est_first_valid /\ ~changed_reference_frames)
       /\ est_runs = 2 => (est_against[2] = prev_frame /\ prev_frame # ref_frame)

\* an invalid run against a reference frame that had just changed: no
\* second run
C17_Witness ==
  /\ AfterFirstFrame
  /\ ~est_first_valid
  /\ changed_reference_frames
  /\ est_runs = 1

\* ---- C18
\* C18: in every call after the first that estimates the initial rotation,
\* the template image is of the frame the call before processed and the test
\* image is of the frame being processed.
C18_ConsecutiveFrames ==
  (AfterFirstFrame /\ use_homography_initialization) =>
    /\ hom_template \in FrameObjects
    /\ frame_image[hom_template] = frame_count - 1
    /\ hom_test = cur_frame
    /\ frame_image[hom_test] = frame_count

\* the reference frame is two frames old and is not the template
C18_Witness ==
  /\ frame_count >= 4
  /\ use_homography_initialization
  /\ ~changed_reference_frames
  /\ frame_image[ref_frame] = frame_count - 2
  /\ hom_template # ref_frame

\* ---- C19
\* C19 (scale-back consistency): the level of the initial rotation is a
\* level of the frame, and the factor that scales H to the full size image
\* is 2 to the level plus the downsample exponent passed with the images.
C19_ScaleBack ==
  hom_test # 0 =>
    /\ 0 <= hom_level
    /\ hom_level <= num_pyramid_levels - 1
    /\ hom_downsample >= 0
    /\ hom_scale_factor = 2 ^ (hom_level + hom_downsample)

\* a frame of one level: level 0, and all the downsampling left to the
\* homography estimator
C19_Witness ==
  /\ hom_test # 0
  /\ num_pyramid_levels = 1
  /\ hom_level = 0
  /\ hom_downsample = InitialRotationPyramidLevel

\* ---- C20
\* C20: when a call after the first forms the initial motion estimate,
\* ref_to_prev is identity if the reference frame is the frame the call
\* before processed; otherwise the call before obtained a valid estimate
\* against this same reference frame, and ref_to_prev is its inverse.
C20_RefToPrevFresh ==
  [][(IsCall /\ frame_count >= 1) =>
       IF frame_image'[ref_frame'] = frame_count
       THEN ref_to_prev_used' = Id
       ELSE /\ est_valid
            /\ est_runs = 1
            /\ est_against[1] = ref_frame'
            /\ Mul(ref_to_prev_used', est_motion) = Id
            /\ Mul(est_motion, ref_to_prev_used') = Id]_vars

\* the reference frame was kept, and ref_to_prev differs from its own
\* inverse
C20_Witness ==
  /\ frame_count >= 3
  /\ ~changed_reference_frames
  /\ frame_image[ref_frame] # frame_count - 1
  /\ Mul(ref_to_prev_used, ref_to_prev_used) # Id

====
